---- MODULE Spec2Model ----
(***************************************************************************)
(* ddcutil: tuned sleep (base/tuned_sleep.c), the deferred sleep deadline  *)
(* kept in the display reference, and the I2C strategy dispatcher          *)
(* (i2c/i2c_strategy_dispatcher.c).                                        *)
(*                                                                         *)
(* Time.  The code measures the clock in nanoseconds and sleeps in         *)
(* milliseconds: 1 ms = 1000*1000 ns.  The model keeps both units but      *)
(* counts the clock in ticks, TicksPerMs ticks to the millisecond, so a    *)
(* clock value need not be a whole number of milliseconds.                 *)
(*                                                                         *)
(* Floating point.  The multipliers are doubles.  The model draws them     *)
(* from fractions <<n, d>> whose denominators are powers of two, for which *)
(* the double product is exact and the conversion to int is the integer    *)
(* quotient.                                                               *)
(***************************************************************************)
EXTENDS Integers, Sequences, FiniteSets, TLC

VARIABLES
  now,                     \* cur_realtime_nanosec(), in ticks
  deferred_sleep_enabled,  \* static bool deferred_sleep_enabled
  i2c_io_strategy,         \* static I2C_IO_Strategy * i2c_io_strategy: the descriptor it points to
  next_i2c_io_after,       \* dref->next_i2c_io_after of every display reference, in ticks
  aborted,                 \* the process was stopped by assert() or a program logic error
  checked,                 \* history: check_deferred_sleep() was the last ledger/bus call on the display
  last,                    \* history: what the most recent call did
  dh_dref,                 \* dh->dref of every display handle, "closed" when it is not open
  deadline_dh,             \* history: the handle through which each deadline was last raised
  pc,                      \* SpecMT: where each thread stands inside tuned_sleep_with_trace
  new_deferred_time,       \* SpecMT: each thread's local new_deferred_time
  sleep_ct,                \* SpecLive: sleeps begun by the call in progress or last made
  largest_deferred         \* SpecLive, history: per display, the largest adjusted delay
                           \* of the deferrable events recorded against it

vars == <<now, deferred_sleep_enabled, i2c_io_strategy, next_i2c_io_after, aborted,
          checked, last, dh_dref, deadline_dh, pc, new_deferred_time, sleep_ct,
          largest_deferred>>

connVars == <<dh_dref, deadline_dh>>

liveVars == <<sleep_ct, largest_deferred>>

-----------------------------------------------------------------------------
(* Bounds *)

TicksPerMs == 2
ClockStartMs == 3000
MaxElapsedMs == 11
ElapseMs == 10
SpecialMillis == 30
MaxRc == 1

ClockStart == ClockStartMs * TicksPerMs
Horizon == ClockStart + MaxElapsedMs * TicksPerMs
ElapseChoices == {ElapseMs * TicksPerMs, ElapseMs * TicksPerMs + 1}

I2C_Drefs == {"dref1", "dref2"}
USB_Drefs == {"usbdref"}
Display_Refs == I2C_Drefs \cup USB_Drefs
Threads == {"t1", "t2"}

\* display handles, and those open from the start
Display_Handles == {"dh1", "dh2", "dhusb"}
InitialHandles == [dh \in Display_Handles |->
                     CASE dh = "dh1"   -> "dref1"
                       [] dh = "dhusb" -> "usbdref"
                       [] OTHER        -> "closed"]

\* values of the per-thread sleep data read by tuned_sleep_with_trace:
\* doubles as fractions <<numerator, denominator>>
SleepMultiplierFactors == {<<1, 4>>, <<1, 1>>}
SleepMultiplierCts == {1, 11}
SleepAdjustmentFactors == {<<1, 2>>, <<3, 2>>}
SpecialMillisArgs == {0, SpecialMillis}
StatusCodes == {-5, 0} \cup 1..MaxRc

\* arguments of a bus write or read: slave addresses 0x37 (DDC) and 0x50 (EDID)
SlaveAddresses == {55, 80}
ByteCounts == {1, 2}
Buffers == {"buf1", "buf2"}
Transfers ==
  [slave_address : SlaveAddresses, bytect : ByteCounts, buf : Buffers,
   read_bytewise : BOOLEAN]

\* the bus the transfers are made on: the file descriptor open on it stands
\* for its display
Bus_Fds == {"dref1"}

\* the transfers made between the sleeps
DdcTransfers ==
  {[slave_address |-> 55, bytect |-> 2, buf |-> "buf1", read_bytewise |-> FALSE]}

-----------------------------------------------------------------------------
(* Program constants *)

\* base/parms.h is not part of the sources: the delays are those of the
\* DDC/CI specification; the null response increment is taken as 25
DDC_TIMEOUT_MILLIS_DEFAULT == 50
DDC_TIMEOUT_MILLIS_POST_NORMAL_COMMAND == 50
DDC_TIMEOUT_MILLIS_POST_SAVE_SETTINGS == 200
DDC_TIMEOUT_MILLIS_BETWEEN_CAP_TABLE_FRAGMENTS == 50
DDC_TIMEOUT_MILLIS_POST_CAP_TABLE_COMMAND == 50
DDC_TIMEOUT_MILLIS_NULL_RESPONSE_INCREMENT == 25
PRE_MULTI_PART_READ_MILLIS == 200

\* the largest millisecond count whose nanosecond count fits an int,
\* and 2^32 ns in ms: (1000*1000) * (int) adjusted_sleep_time_millis
INT_MAX_MILLIS == 2147
UINT_SPAN_MILLIS == 4295

Sleep_Event_Type ==
  {"SE_WRITE_TO_READ", "SE_POST_WRITE", "SE_POST_READ", "SE_POST_SAVE_SETTINGS",
   "SE_MULTI_PART_WRITE_TO_READ", "SE_AFTER_EACH_CAP_TABLE_SEGMENT",
   "SE_POST_CAP_TABLE_COMMAND", "SE_DDC_NULL", "SE_PRE_MULTI_PART_READ", "SE_SPECIAL"}

io_mode(d) == IF d \in I2C_Drefs THEN "DDCA_IO_I2C" ELSE "DDCA_IO_USB"

\* typedef enum { I2C_IO_STRATEGY_IOCTL } I2C_IO_Strategy_Id
I2C_IO_Strategy_Id == {"I2C_IO_STRATEGY_IOCTL"}

\* (mutant) the descriptor carrying an id that is not the one it is selected by
i2c_ioctl_io_strategy_misnumbered ==
  [strategy_id |-> "I2C_IO_STRATEGY_FILEIO", i2c_writer |-> "i2c_ioctl_writer",
   i2c_reader |-> "i2c_ioctl_reader"]

\* I2C_IO_Strategy i2c_ioctl_io_strategy = { I2C_IO_STRATEGY_IOCTL, i2c_ioctl_writer, i2c_ioctl_reader, .. }
i2c_ioctl_io_strategy ==
  [strategy_id |-> "I2C_IO_STRATEGY_IOCTL", i2c_writer |-> "i2c_ioctl_writer",
   i2c_reader |-> "i2c_ioctl_reader"]


-----------------------------------------------------------------------------
(* Pure parts of tuned_sleep_with_trace and check_deferred_sleep *)

\* (mutant) the assertion with >= 0 in place of > 0
special_millis_ok_nonnegative(event_type, special_sleep_time_millis) ==
  \/ event_type # "SE_SPECIAL" /\ special_sleep_time_millis = 0
  \/ event_type = "SE_SPECIAL" /\ special_sleep_time_millis >= 0

\* assert( (event_type != SE_SPECIAL && special_sleep_time_millis == 0) ||
\*         (event_type == SE_SPECIAL && special_sleep_time_millis >  0) )
special_millis_ok(event_type, special_sleep_time_millis) ==
  \/ event_type # "SE_SPECIAL" /\ special_sleep_time_millis = 0
  \/ event_type = "SE_SPECIAL" /\ special_sleep_time_millis > 0

\* if (io_mode == DDCA_IO_I2C) ... else { assert(io_mode == DDCA_IO_USB); PROGRAM_LOGIC_ERROR(..) }
is_i2c_io(dh) == io_mode(dh) = "DDCA_IO_I2C"

\* (mutant) PROGRAM_LOGIC_ERROR() reports and returns
PROGRAM_LOGIC_ERROR_returns == FALSE

\* PROGRAM_LOGIC_ERROR() ends the call path (base/core.h is not part of the sources)
PROGRAM_LOGIC_ERROR_terminates == TRUE

\* (mutant) the SE_POST_SAVE_SETTINGS case given the delay of a normal command
spec_sleep_time_millis_save_as_normal(event_type, special_sleep_time_millis) ==
  CASE event_type = "SE_WRITE_TO_READ"                -> DDC_TIMEOUT_MILLIS_DEFAULT
    [] event_type = "SE_POST_WRITE"                   -> DDC_TIMEOUT_MILLIS_POST_NORMAL_COMMAND
    [] event_type = "SE_POST_READ"                    -> DDC_TIMEOUT_MILLIS_POST_NORMAL_COMMAND
    [] event_type = "SE_POST_SAVE_SETTINGS"           -> DDC_TIMEOUT_MILLIS_POST_NORMAL_COMMAND
    [] event_type = "SE_MULTI_PART_WRITE_TO_READ"     -> DDC_TIMEOUT_MILLIS_DEFAULT
    [] event_type = "SE_AFTER_EACH_CAP_TABLE_SEGMENT" -> DDC_TIMEOUT_MILLIS_BETWEEN_CAP_TABLE_FRAGMENTS
    [] event_type = "SE_POST_CAP_TABLE_COMMAND"       -> DDC_TIMEOUT_MILLIS_POST_CAP_TABLE_COMMAND
    [] event_type = "SE_DDC_NULL"                     -> DDC_TIMEOUT_MILLIS_NULL_RESPONSE_INCREMENT
    [] event_type = "SE_PRE_MULTI_PART_READ"          -> PRE_MULTI_PART_READ_MILLIS
    [] event_type = "SE_SPECIAL"                      -> special_sleep_time_millis
    [] OTHER                                          -> 0

\* the switch on event_type: spec_sleep_time_millis
spec_sleep_time_millis(event_type, special_sleep_time_millis) ==
  CASE event_type = "SE_WRITE_TO_READ"                -> DDC_TIMEOUT_MILLIS_DEFAULT
    [] event_type = "SE_POST_WRITE"                   -> DDC_TIMEOUT_MILLIS_POST_NORMAL_COMMAND
    [] event_type = "SE_POST_READ"                    -> DDC_TIMEOUT_MILLIS_POST_NORMAL_COMMAND
    [] event_type = "SE_POST_SAVE_SETTINGS"           -> DDC_TIMEOUT_MILLIS_POST_SAVE_SETTINGS
    [] event_type = "SE_MULTI_PART_WRITE_TO_READ"     -> DDC_TIMEOUT_MILLIS_DEFAULT
    [] event_type = "SE_AFTER_EACH_CAP_TABLE_SEGMENT" -> DDC_TIMEOUT_MILLIS_BETWEEN_CAP_TABLE_FRAGMENTS
    [] event_type = "SE_POST_CAP_TABLE_COMMAND"       -> DDC_TIMEOUT_MILLIS_POST_CAP_TABLE_COMMAND
    [] event_type = "SE_DDC_NULL"                     -> DDC_TIMEOUT_MILLIS_NULL_RESPONSE_INCREMENT
    [] event_type = "SE_PRE_MULTI_PART_READ"          -> PRE_MULTI_PART_READ_MILLIS
    [] event_type = "SE_SPECIAL"                      -> special_sleep_time_millis
    [] OTHER                                          -> 0

\* (mutant) every case of the switch sets deferrable_sleep = deferred_sleep_enabled
deferrable_sleep_every_event(event_type, enabled) == enabled

\* (mutant) the switch sets deferrable_sleep = true, whatever the setting
deferrable_sleep_always(event_type, enabled) ==
  event_type \in {"SE_POST_WRITE", "SE_POST_READ", "SE_POST_SAVE_SETTINGS",
                  "SE_POST_CAP_TABLE_COMMAND"}

\* the switch on event_type: deferrable_sleep
deferrable_sleep(event_type, enabled) ==
  IF event_type \in {"SE_POST_WRITE", "SE_POST_READ", "SE_POST_SAVE_SETTINGS",
                     "SE_POST_CAP_TABLE_COMMAND"}
    THEN enabled
    ELSE FALSE

\* (mutant) the factors' product is converted to int before it multiplies the delay
DoubleProductToInt_early(f1, f2, millis) == ((f1[1] * f2[1]) \div (f1[2] * f2[2])) * millis

\* int = double * double * int, for doubles f1 = <<n, d>> and f2: the product
\* is truncated once, on assignment
DoubleProductToInt(f1, f2, millis) == (f1[1] * f2[1] * millis) \div (f1[2] * f2[2])

\* the per-thread sleep data tuned_sleep_with_trace can find on entry; the
\* adjustment factor is 1 until dsa_update_adjustment_factor() has set it
Per_Thread_Data ==
  [dynamic_sleep_enabled : {FALSE}, sleep_multiplier_factor : SleepMultiplierFactors,
   sleep_multiplier_ct : SleepMultiplierCts, cur_sleep_adjustment_factor : {<<1, 1>>}]
  \cup
  [dynamic_sleep_enabled : {TRUE}, sleep_multiplier_factor : SleepMultiplierFactors,
   sleep_multiplier_ct : {1}, cur_sleep_adjustment_factor : {<<1, 1>>}]

NoTsd ==
  [dynamic_sleep_enabled |-> FALSE, sleep_multiplier_factor |-> <<1, 1>>,
   sleep_multiplier_ct |-> 1, cur_sleep_adjustment_factor |-> <<1, 1>>]

\* dsa_update_adjustment_factor(dh, spec_sleep_time_millis) refreshes the
\* thread's cur_sleep_adjustment_factor (base/dynamic_sleep.c is not part of
\* the sources); factor is the value it arrives at
dsa_update_adjustment_factor(tsd, factor) ==
  [tsd EXCEPT !.cur_sleep_adjustment_factor = factor]

\* the factors dsa_update_adjustment_factor() can arrive at for a thread
DsaFactors(tsd) ==
  IF tsd.dynamic_sleep_enabled THEN SleepAdjustmentFactors
                               ELSE {tsd.cur_sleep_adjustment_factor}

\* (mutant) the adjustment factor is read before dsa_update_adjustment_factor() is called
tsd_before_update(tsd, factor) == tsd

\* if (tsd->dynamic_sleep_enabled) { dsa_update_adjustment_factor(dh, spec_sleep_time_millis); ..
\* the per-thread data as the products read it
tsd_after_update(tsd, factor) ==
  IF tsd.dynamic_sleep_enabled THEN dsa_update_adjustment_factor(tsd, factor) ELSE tsd

\* the number of calls of dsa_update_adjustment_factor() in one tuned_sleep_with_trace
dsa_update_calls(tsd) == IF tsd.dynamic_sleep_enabled THEN 1 ELSE 0

adjusted_sleep_time_millis(tsd, spec_millis) ==
  IF tsd.dynamic_sleep_enabled
    THEN DoubleProductToInt(tsd.cur_sleep_adjustment_factor, tsd.sleep_multiplier_factor,
                            spec_millis)
    ELSE DoubleProductToInt(<<tsd.sleep_multiplier_ct, 1>>, tsd.sleep_multiplier_factor,
                            spec_millis)

\* (1000 * 1000) * (int) adjusted_sleep_time_millis, an int product, in ticks.
\* Above INT_MAX the signed product overflows (undefined): the build either
\* wraps it to 32 bits or carries it out in the wider type of the sum.
Wrap32Millis(millis) == ((millis + INT_MAX_MILLIS) % UINT_SPAN_MILLIS) - INT_MAX_MILLIS

nanos_product(adjusted) ==
  IF adjusted <= INT_MAX_MILLIS
    THEN {adjusted * TicksPerMs}
    ELSE {adjusted * TicksPerMs, Wrap32Millis(adjusted) * TicksPerMs}

\* (mutant) the store without the comparison
overwritten_deadline(old, new_time) == new_time

\* if (new_deferred_time > dh->dref->next_i2c_io_after) dh->dref->next_i2c_io_after = new_deferred_time
raised_deadline(old, new_time) == IF new_time > old THEN new_time ELSE old

\* the greatest of a set of clock values
Latest(times) == CHOOSE t \in times : \A u \in times : u <= t

\* (mutant) one deadline for all displays: the latest of theirs
dref_next_i2c_io_after_any(deadlines, dref) ==
  Latest({deadlines[d] : d \in DOMAIN deadlines})

\* dh->dref->next_i2c_io_after, as check_deferred_sleep reads it
dref_next_i2c_io_after(deadlines, dref) == deadlines[dref]

\* (mutant) the difference taken as the sleep time without the division
deferred_sleep_time_unscaled(deadline, curtime) == deadline - curtime

\* int sleep_time = (dh->dref->next_i2c_io_after - curtime) / (1000*1000)
deferred_sleep_time(deadline, curtime) == (deadline - curtime) \div TicksPerMs

\* sleep_millis_with_trace(): the thread is blocked for the given milliseconds
sleep_millis(clock, millis) == clock + millis * TicksPerMs

\* (mutant) record_sleep_event() called last, after the deadline update or the sleep
tuned_sleep_statements_record_last(deferrable) ==
  <<"adjusted_sleep_time_millis",
    IF deferrable THEN "next_i2c_io_after" ELSE "sleep_millis_with_trace",
    "record_sleep_event">>

\* what tuned_sleep_with_trace does once the arguments and the io mode are
\* accepted, in the order of its statements: the adjusted delay is computed,
\* record_sleep_event(event_type) is called, then the deadline is updated or
\* the thread sleeps
tuned_sleep_statements(deferrable) ==
  <<"adjusted_sleep_time_millis",
    "record_sleep_event",
    IF deferrable THEN "next_i2c_io_after" ELSE "sleep_millis_with_trace">>

\* how often a statement occurs in a call
Occurrences(statements, name) ==
  Cardinality({i \in 1..Len(statements) : statements[i] = name})

\* (mutant) the immediate sleep stretched to a deadline that lies beyond it
immediate_sleep_millis_to_deadline(adjusted, deadline, clock) ==
  IF deadline > clock + adjusted * TicksPerMs
    THEN deferred_sleep_time(deadline, clock)
    ELSE adjusted

\* else { sleep_millis_with_trace(adjusted_sleep_time_millis, ..) }: the time
\* the immediate path sleeps, with the display's deadline and the clock in reach
immediate_sleep_millis(adjusted, deadline, clock) == adjusted

-----------------------------------------------------------------------------
(* State after program start *)

\* the record of a call, before the call fills it in
NoCall ==
  [op |-> "none", dref |-> "none", event |-> "none", special |-> 0,
   outcome |-> "returned", entry_now |-> 0, entry_next |-> 0, entry_checked |-> FALSE,
   tsd |-> NoTsd, base |-> 0, deferrable |-> FALSE, adjusted |-> 0,
   candidate |-> 0, slept |-> -1, recorded |-> 0, rc |-> 0,
   arg |-> "none", ret |-> 0, xfer |-> <<>>, transport |-> <<>>,
   dh |-> "none", entry_tsd |-> NoTsd, dsa_factor |-> <<1, 1>>, dsa_calls |-> 0,
   statements |-> <<>>]

Init ==
  /\ now = ClockStart
  /\ deferred_sleep_enabled = FALSE
  /\ i2c_io_strategy = i2c_ioctl_io_strategy
  /\ next_i2c_io_after = [d \in Display_Refs |-> 0]
  /\ aborted = FALSE
  /\ checked = [d \in Display_Refs |-> FALSE]
  /\ last = NoCall
  /\ dh_dref = InitialHandles
  /\ deadline_dh = [d \in Display_Refs |-> "none"]
  /\ pc = [t \in Threads |-> "idle"]
  /\ new_deferred_time = [t \in Threads |-> 0]
  /\ sleep_ct = 0
  /\ largest_deferred = [d \in Display_Refs |-> 0]

-----------------------------------------------------------------------------
(* Operations, one thread *)

\* (mutant) return deferred_sleep_enabled, read after the assignment
enable_deferred_sleep_new(old, onoff) == onoff

\* bool old = deferred_sleep_enabled; deferred_sleep_enabled = onoff; return old
enable_deferred_sleep_old(old, onoff) == old

\* bool enable_deferred_sleep(bool onoff)
enable_deferred_sleep(onoff) ==
  /\ ~aborted
  /\ now <= Horizon
  /\ deferred_sleep_enabled' = onoff
  /\ last' = [NoCall EXCEPT !.op = "enable_deferred_sleep", !.entry_now = now,
                            !.rc = IF deferred_sleep_enabled THEN 1 ELSE 0,
                            !.arg = onoff,
                            !.ret = enable_deferred_sleep_old(deferred_sleep_enabled, onoff)]
  /\ UNCHANGED <<now, i2c_io_strategy, next_i2c_io_after, aborted, checked, pc,
                 new_deferred_time>>
  /\ UNCHANGED connVars
  /\ UNCHANGED liveVars

\* void tuned_sleep_with_trace(dh, event_type, special_sleep_time_millis, ...)
\* tsd: what tsd_get_thread_sleep_data() returns; dsa_factor: the factor
\* dsa_update_adjustment_factor() leaves in it, if called
tuned_sleep_with_trace(dh, event_type, special_sleep_time_millis, tsd, dsa_factor) ==
  /\ ~aborted
  /\ now <= Horizon
  /\ dh_dref[dh] # "closed"
  /\ LET dref == dh_dref[dh]
         call == [NoCall EXCEPT !.op = "tuned_sleep_with_trace", !.dh = dh,
                                !.dref = dref,
                                !.event = event_type,
                                !.special = special_sleep_time_millis,
                                !.entry_now = now,
                                !.entry_next = next_i2c_io_after[dref],
                                !.entry_checked = checked[dref]]
         spec_millis == IF is_i2c_io(dref)
                          THEN spec_sleep_time_millis(event_type, special_sleep_time_millis)
                          ELSE 0
         deferrable == IF is_i2c_io(dref)
                         THEN deferrable_sleep(event_type, deferred_sleep_enabled)
                         ELSE FALSE
         tsd_read == tsd_after_update(tsd, dsa_factor)
         adjusted == adjusted_sleep_time_millis(tsd_read, spec_millis)
         done == [call EXCEPT !.entry_tsd = tsd, !.dsa_factor = dsa_factor,
                              !.dsa_calls = dsa_update_calls(tsd),
                              !.tsd = tsd_read, !.base = spec_millis,
                              !.deferrable = deferrable, !.adjusted = adjusted,
                              !.statements = tuned_sleep_statements(deferrable),
                              !.recorded = Occurrences(tuned_sleep_statements(deferrable),
                                                       "record_sleep_event")]
     IN
       IF ~special_millis_ok(event_type, special_sleep_time_millis)
         THEN \* assert() fails
              /\ aborted' = TRUE
              /\ last' = [call EXCEPT !.outcome = "assert_failed"]
              /\ UNCHANGED <<now, next_i2c_io_after, checked, deadline_dh>>
       ELSE IF ~is_i2c_io(dref) /\ PROGRAM_LOGIC_ERROR_terminates
         THEN /\ aborted' = TRUE
              /\ last' = [call EXCEPT !.outcome = "program_logic_error"]
              /\ UNCHANGED <<now, next_i2c_io_after, checked, deadline_dh>>
       ELSE IF deferrable
         THEN \E product \in nanos_product(adjusted) :
                /\ next_i2c_io_after' =
                     [next_i2c_io_after EXCEPT
                        ![dref] = raised_deadline(@, now + product)]
                /\ deadline_dh' =
                     [deadline_dh EXCEPT
                        ![dref] = IF now + product > next_i2c_io_after[dref] THEN dh ELSE @]
                /\ checked' = [checked EXCEPT ![dref] = FALSE]
                /\ last' = [done EXCEPT !.candidate = now + product]
                /\ UNCHANGED <<now, aborted>>
       ELSE LET millis == immediate_sleep_millis(adjusted, next_i2c_io_after[dref], now)
            IN /\ now' = sleep_millis(now, millis)
               /\ last' = [done EXCEPT !.slept = millis]
               /\ UNCHANGED <<next_i2c_io_after, aborted, checked, deadline_dh>>
  /\ UNCHANGED <<deferred_sleep_enabled, i2c_io_strategy, dh_dref, pc, new_deferred_time>>
  /\ UNCHANGED liveVars

\* (mutant) the deadline is cleared once it has been slept for
check_deferred_sleep_clearing(dh) ==
  /\ ~aborted
  /\ now <= Horizon
  /\ dh_dref[dh] # "closed"
  /\ LET dref == dh_dref[dh]
         curtime == now
         call == [NoCall EXCEPT !.op = "check_deferred_sleep", !.dh = dh,
                                !.dref = dref,
                                !.entry_now = now,
                                !.entry_next = next_i2c_io_after[dref],
                                !.entry_checked = checked[dref]]
     IN
       /\ IF dref_next_i2c_io_after(next_i2c_io_after, dref) > curtime
            THEN LET sleep_time ==
                       deferred_sleep_time(dref_next_i2c_io_after(next_i2c_io_after, dref),
                                           curtime)
                 IN /\ now' = sleep_millis(now, sleep_time)
                    /\ last' = [call EXCEPT !.slept = sleep_time]
                    /\ next_i2c_io_after' = [next_i2c_io_after EXCEPT ![dref] = 0]
            ELSE /\ now' = now
                 /\ last' = call
                 /\ next_i2c_io_after' = next_i2c_io_after
       /\ checked' = [checked EXCEPT ![dref] = TRUE]
  /\ UNCHANGED <<deferred_sleep_enabled, i2c_io_strategy, aborted, pc, new_deferred_time>>
  /\ UNCHANGED connVars
  /\ UNCHANGED liveVars

\* void check_deferred_sleep(dh, ...)
check_deferred_sleep(dh) ==
  /\ ~aborted
  /\ now <= Horizon
  /\ dh_dref[dh] # "closed"
  /\ LET dref == dh_dref[dh]
         curtime == now
         call == [NoCall EXCEPT !.op = "check_deferred_sleep", !.dh = dh,
                                !.dref = dref,
                                !.entry_now = now,
                                !.entry_next = next_i2c_io_after[dref],
                                !.entry_checked = checked[dref]]
     IN
       /\ IF dref_next_i2c_io_after(next_i2c_io_after, dref) > curtime
            THEN LET sleep_time ==
                       deferred_sleep_time(dref_next_i2c_io_after(next_i2c_io_after, dref),
                                           curtime)
                 IN /\ now' = sleep_millis(now, sleep_time)
                    /\ last' = [call EXCEPT !.slept = sleep_time]
            ELSE /\ now' = now
                 /\ last' = call
       /\ checked' = [checked EXCEPT ![dref] = TRUE]
  /\ UNCHANGED <<deferred_sleep_enabled, i2c_io_strategy, next_i2c_io_after, aborted, pc,
                 new_deferred_time>>
  /\ UNCHANGED connVars
  /\ UNCHANGED liveVars

\* bool is_deferred_sleep_enabled()
is_deferred_sleep_enabled == deferred_sleep_enabled

\* the switch of i2c_set_io_strategy: the descriptor the pointer is left at
selected_strategy(strategy_id, current) ==
  CASE strategy_id = "I2C_IO_STRATEGY_IOCTL" -> i2c_ioctl_io_strategy
    [] OTHER                                 -> current

\* I2C_IO_Strategy_Id i2c_set_io_strategy(I2C_IO_Strategy_Id strategy_id)
i2c_set_io_strategy(strategy_id) ==
  /\ ~aborted
  /\ now <= Horizon
  /\ LET old == i2c_io_strategy.strategy_id
     IN last' = [NoCall EXCEPT !.op = "i2c_set_io_strategy", !.entry_now = now,
                               !.arg = strategy_id, !.ret = old]
  /\ i2c_io_strategy' = selected_strategy(strategy_id, i2c_io_strategy)
  /\ UNCHANGED <<now, deferred_sleep_enabled, next_i2c_io_after, aborted, checked, pc,
                 new_deferred_time>>
  /\ UNCHANGED connVars
  /\ UNCHANGED liveVars

\* I2C_IO_Strategy_Id i2c_get_io_strategy()
i2c_get_io_strategy == i2c_io_strategy.strategy_id

\* (mutant) the strategy's function is called again when it reports an error
strategy_calls_retried(call, rc) == IF rc < 0 THEN <<call, call>> ELSE <<call>>

\* rc = i2c_io_strategy->i2c_writer(..) / ->i2c_reader(..): the calls made of
\* the strategy's function, which returns rc
strategy_calls(call, rc) == <<call>>

\* (mutant) no assert: NDEBUG
rc_asserted_nothing(rc) == TRUE

\* assert (rc <= 0)
rc_asserted(rc) == rc <= 0

\* (mutant) a transfer that failed drops the display's deferred deadline
invoke_i2c_resetting(op, fn, fd, call_args, passed_args, rc) ==
  /\ ~aborted
  /\ now <= Horizon
  /\ LET call == [NoCall EXCEPT !.op = op, !.dref = fd, !.entry_now = now,
                                !.entry_next = next_i2c_io_after[fd],
                                !.entry_checked = checked[fd], !.rc = rc,
                                !.xfer = call_args,
                                !.transport =
                                   strategy_calls([fn |-> fn, args |-> passed_args], rc)]
     IN
       IF rc_asserted(rc)
         THEN /\ last' = [call EXCEPT !.ret = rc]
              /\ aborted' = FALSE
         ELSE /\ last' = [call EXCEPT !.outcome = "assert_failed"]
              /\ aborted' = TRUE
  /\ checked' = [checked EXCEPT ![fd] = FALSE]
  /\ next_i2c_io_after' = IF rc < 0 THEN [next_i2c_io_after EXCEPT ![fd] = 0]
                                    ELSE next_i2c_io_after
  /\ UNCHANGED <<now, deferred_sleep_enabled, i2c_io_strategy, pc, new_deferred_time>>
  /\ UNCHANGED connVars
  /\ UNCHANGED liveVars

\* the body shared by invoke_i2c_writer and invoke_i2c_reader.  fd is open on
\* the bus of display fd; fn is the strategy's function, called with
\* passed_args; rc is what that function returns.
invoke_i2c(op, fn, fd, call_args, passed_args, rc) ==
  /\ ~aborted
  /\ now <= Horizon
  /\ LET call == [NoCall EXCEPT !.op = op, !.dref = fd, !.entry_now = now,
                                !.entry_next = next_i2c_io_after[fd],
                                !.entry_checked = checked[fd], !.rc = rc,
                                !.xfer = call_args,
                                !.transport =
                                   strategy_calls([fn |-> fn, args |-> passed_args], rc)]
     IN
       IF rc_asserted(rc)
         THEN \* return rc
              /\ last' = [call EXCEPT !.ret = rc]
              /\ aborted' = FALSE
         ELSE \* assert (rc <= 0) fails
              /\ last' = [call EXCEPT !.outcome = "assert_failed"]
              /\ aborted' = TRUE
  /\ checked' = [checked EXCEPT ![fd] = FALSE]
  /\ UNCHANGED <<now, deferred_sleep_enabled, i2c_io_strategy, next_i2c_io_after, pc,
                 new_deferred_time>>
  /\ UNCHANGED connVars
  /\ UNCHANGED liveVars

\* i2c_io_strategy->i2c_writer(fd, slave_address, bytect, bytes_to_write)
writer_args(fd, slave_address, bytect, bytes_to_write) ==
  <<fd, slave_address, bytect, bytes_to_write>>

\* i2c_io_strategy->i2c_reader(fd, slave_address, read_bytewise, bytect, readbuf)
reader_args(fd, slave_address, read_bytewise, bytect, readbuf) ==
  <<fd, slave_address, read_bytewise, bytect, readbuf>>

\* Status_Errno_DDC invoke_i2c_writer(fd, slave_address, bytect, bytes_to_write)
invoke_i2c_writer(fd, slave_address, bytect, bytes_to_write, rc) ==
  invoke_i2c("invoke_i2c_writer", i2c_io_strategy.i2c_writer, fd,
             <<fd, slave_address, bytect, bytes_to_write>>,
             writer_args(fd, slave_address, bytect, bytes_to_write), rc)

\* Status_Errno_DDC invoke_i2c_reader(fd, slave_address, read_bytewise, bytect, readbuf)
invoke_i2c_reader(fd, slave_address, read_bytewise, bytect, readbuf, rc) ==
  invoke_i2c("invoke_i2c_reader", i2c_io_strategy.i2c_reader, fd,
             <<fd, slave_address, read_bytewise, bytect, readbuf>>,
             reader_args(fd, slave_address, read_bytewise, bytect, readbuf), rc)

\* the clock runs on between calls
Elapse(ticks) ==
  /\ ~aborted
  /\ now + ticks <= Horizon
  /\ now' = now + ticks
  /\ UNCHANGED <<deferred_sleep_enabled, i2c_io_strategy, next_i2c_io_after, aborted,
                 checked, last, pc, new_deferred_time>>
  /\ UNCHANGED connVars
  /\ UNCHANGED liveVars

Next ==
  \/ \E onoff \in BOOLEAN : enable_deferred_sleep(onoff)
  \/ \E dh \in Display_Handles, event_type \in Sleep_Event_Type,
        special \in SpecialMillisArgs, tsd \in Per_Thread_Data :
       \E dsa_factor \in DsaFactors(tsd) :
         tuned_sleep_with_trace(dh, event_type, special, tsd, dsa_factor)
  \/ \E dh \in Display_Handles : check_deferred_sleep(dh)
  \/ \E strategy_id \in I2C_IO_Strategy_Id : i2c_set_io_strategy(strategy_id)
  \/ \E fd \in Bus_Fds, x \in DdcTransfers, rc \in StatusCodes :
       invoke_i2c_writer(fd, x.slave_address, x.bytect, x.buf, rc)
  \/ \E fd \in Bus_Fds, x \in DdcTransfers, rc \in StatusCodes :
       invoke_i2c_reader(fd, x.slave_address, x.read_bytewise, x.bytect, x.buf, rc)
  \/ \E ticks \in ElapseChoices : Elapse(ticks)

Spec == Init /\ [][Next]_vars

-----------------------------------------------------------------------------
(* The strategy dispatcher on its own: strategy selection and bus transfers *)
(* with every combination of arguments.                                     *)

NextIO ==
  \/ \E strategy_id \in I2C_IO_Strategy_Id : i2c_set_io_strategy(strategy_id)
  \/ \E fd \in Bus_Fds, x \in Transfers, rc \in StatusCodes :
       invoke_i2c_writer(fd, x.slave_address, x.bytect, x.buf, rc)
  \/ \E fd \in Bus_Fds, x \in Transfers, rc \in StatusCodes :
       invoke_i2c_reader(fd, x.slave_address, x.read_bytewise, x.bytect, x.buf, rc)
  \/ \E ticks \in ElapseChoices : Elapse(ticks)

SpecIO == Init /\ [][NextIO]_vars

-----------------------------------------------------------------------------
(* Connections.  ddc_open_display() and ddc_close_display() are not part of *)
(* the sources: a display handle is created on open with a link to its      *)
(* display reference and destroyed on close; the display reference, and     *)
(* with it next_i2c_io_after, lives on.                                     *)

I2C_Handles == {"dh1", "dh2"}

\* ddc_open_display(dref, callopts, &dh)
ddc_open_display(dref, dh) ==
  /\ ~aborted
  /\ now <= Horizon
  /\ dh_dref[dh] = "closed"
  /\ dh_dref' = [dh_dref EXCEPT ![dh] = dref]
  /\ last' = [NoCall EXCEPT !.op = "ddc_open_display", !.dh = dh, !.dref = dref,
                            !.entry_now = now, !.entry_next = next_i2c_io_after[dref]]
  /\ UNCHANGED <<now, deferred_sleep_enabled, i2c_io_strategy, next_i2c_io_after, aborted,
                 checked, deadline_dh, pc, new_deferred_time>>
  /\ UNCHANGED liveVars

\* ddc_close_display(dh)
ddc_close_display(dh) ==
  /\ ~aborted
  /\ now <= Horizon
  /\ dh_dref[dh] # "closed"
  /\ dh_dref' = [dh_dref EXCEPT ![dh] = "closed"]
  /\ last' = [NoCall EXCEPT !.op = "ddc_close_display", !.dh = dh, !.dref = dh_dref[dh],
                            !.entry_now = now,
                            !.entry_next = next_i2c_io_after[dh_dref[dh]]]
  /\ UNCHANGED <<now, deferred_sleep_enabled, i2c_io_strategy, next_i2c_io_after, aborted,
                 checked, deadline_dh, pc, new_deferred_time>>
  /\ UNCHANGED liveVars

\* a thread without dynamic sleep, with retry count 1
StaticTsd == {tsd \in Per_Thread_Data : /\ ~tsd.dynamic_sleep_enabled
                                        /\ tsd.sleep_multiplier_ct = 1}

NextConn ==
  \/ \E dref \in I2C_Drefs, dh \in I2C_Handles : ddc_open_display(dref, dh)
  \/ \E dh \in I2C_Handles : ddc_close_display(dh)
  \/ \E onoff \in BOOLEAN : enable_deferred_sleep(onoff)
  \/ \E dh \in I2C_Handles, event_type \in Sleep_Event_Type, tsd \in StaticTsd :
       tuned_sleep_with_trace(dh, event_type, 0, tsd, tsd.cur_sleep_adjustment_factor)
  \/ \E dh \in I2C_Handles : check_deferred_sleep(dh)
  \/ \E ticks \in ElapseChoices : Elapse(ticks)

SpecConn == Init /\ [][NextConn]_vars

-----------------------------------------------------------------------------
(* Two threads holding handles to the same display reference, each inside   *)
(* the deferred branch of tuned_sleep_with_trace.  The branch reads the     *)
(* clock, then reads dref->next_i2c_io_after for the comparison, then       *)
(* stores: three steps with nothing that keeps another thread out.          *)

SharedDref == CHOOSE d \in I2C_Drefs : d \in Bus_Fds

\* the state once enable_deferred_sleep(true) has returned
InitMT ==
  /\ now = ClockStart
  /\ deferred_sleep_enabled = TRUE
  /\ i2c_io_strategy = i2c_ioctl_io_strategy
  /\ next_i2c_io_after = [d \in Display_Refs |-> 0]
  /\ aborted = FALSE
  /\ checked = [d \in Display_Refs |-> FALSE]
  /\ last = [NoCall EXCEPT !.op = "enable_deferred_sleep", !.entry_now = ClockStart]
  /\ dh_dref = InitialHandles
  /\ deadline_dh = [d \in Display_Refs |-> "none"]
  /\ pc = [t \in Threads |-> "idle"]
  /\ new_deferred_time = [t \in Threads |-> 0]
  /\ sleep_ct = 0
  /\ largest_deferred = [d \in Display_Refs |-> 0]

\* uint64_t new_deferred_time = cur_realtime_nanosec() + (1000*1000) * (int) adjusted_sleep_time_millis
thread_new_deferred_time(t, event_type, tsd, dsa_factor) ==
  /\ pc[t] = "idle"
  /\ special_millis_ok(event_type, 0)
  /\ deferrable_sleep(event_type, deferred_sleep_enabled)
  /\ \E product \in nanos_product(
                     adjusted_sleep_time_millis(tsd_after_update(tsd, dsa_factor),
                                                spec_sleep_time_millis(event_type, 0))) :
       new_deferred_time' = [new_deferred_time EXCEPT ![t] = now + product]
  /\ pc' = [pc EXCEPT ![t] = "compare"]
  /\ UNCHANGED <<now, deferred_sleep_enabled, i2c_io_strategy, next_i2c_io_after, aborted,
                 checked, last>>
  /\ UNCHANGED connVars
  /\ UNCHANGED liveVars

\* if (new_deferred_time > dh->dref->next_i2c_io_after)
thread_compare(t) ==
  /\ pc[t] = "compare"
  /\ pc' = [pc EXCEPT ![t] = IF new_deferred_time[t] > next_i2c_io_after[SharedDref]
                               THEN "store"
                               ELSE "idle"]
  /\ UNCHANGED <<now, deferred_sleep_enabled, i2c_io_strategy, next_i2c_io_after, aborted,
                 checked, last, new_deferred_time>>
  /\ UNCHANGED connVars
  /\ UNCHANGED liveVars

\* dh->dref->next_i2c_io_after = new_deferred_time
thread_store(t) ==
  /\ pc[t] = "store"
  /\ next_i2c_io_after' = [next_i2c_io_after EXCEPT ![SharedDref] = new_deferred_time[t]]
  /\ pc' = [pc EXCEPT ![t] = "idle"]
  /\ UNCHANGED <<now, deferred_sleep_enabled, i2c_io_strategy, aborted, checked, last,
                 new_deferred_time>>
  /\ UNCHANGED connVars
  /\ UNCHANGED liveVars

NextMT ==
  \/ \E t \in Threads, event_type \in Sleep_Event_Type, tsd \in Per_Thread_Data :
       \E dsa_factor \in DsaFactors(tsd) :
         thread_new_deferred_time(t, event_type, tsd, dsa_factor)
  \/ \E t \in Threads : thread_compare(t)
  \/ \E t \in Threads : thread_store(t)
  \/ \E ticks \in ElapseChoices : Elapse(ticks)

SpecMT == InitMT /\ [][NextMT]_vars

-----------------------------------------------------------------------------
(* One thread, with the sleep as a time of its own: a call that sleeps      *)
(* hands itself to sleep_millis_with_trace and is suspended (outcome        *)
(* "sleeping") while the clock runs, and returns once the time asked for    *)
(* has passed.  While a call is suspended the thread makes no other call.   *)

SleepStepMs == 500

\* per-thread sleep data of a thread without dynamic sleep
LiveTsd == {tsd \in Per_Thread_Data : ~tsd.dynamic_sleep_enabled}

Suspended == last.outcome = "sleeping"

\* the time at which the sleep of the suspended call is over
wake_time == sleep_millis(last.entry_now, last.slept)

\* tuned_sleep_with_trace up to its sleep_millis_with_trace(), or to its
\* return when it does not sleep
tuned_sleep_with_trace_enter(dh, event_type, special_sleep_time_millis, tsd, dsa_factor) ==
  /\ ~aborted
  /\ ~Suspended
  /\ now <= Horizon
  /\ dh_dref[dh] # "closed"
  /\ LET dref == dh_dref[dh]
         call == [NoCall EXCEPT !.op = "tuned_sleep_with_trace", !.dh = dh,
                                !.dref = dref,
                                !.event = event_type,
                                !.special = special_sleep_time_millis,
                                !.entry_now = now,
                                !.entry_next = next_i2c_io_after[dref],
                                !.entry_checked = checked[dref]]
         spec_millis == IF is_i2c_io(dref)
                          THEN spec_sleep_time_millis(event_type, special_sleep_time_millis)
                          ELSE 0
         deferrable == IF is_i2c_io(dref)
                         THEN deferrable_sleep(event_type, deferred_sleep_enabled)
                         ELSE FALSE
         tsd_read == tsd_after_update(tsd, dsa_factor)
         adjusted == adjusted_sleep_time_millis(tsd_read, spec_millis)
         done == [call EXCEPT !.entry_tsd = tsd, !.dsa_factor = dsa_factor,
                              !.dsa_calls = dsa_update_calls(tsd),
                              !.tsd = tsd_read, !.base = spec_millis,
                              !.deferrable = deferrable, !.adjusted = adjusted,
                              !.statements = tuned_sleep_statements(deferrable),
                              !.recorded = Occurrences(tuned_sleep_statements(deferrable),
                                                       "record_sleep_event")]
     IN
       IF ~special_millis_ok(event_type, special_sleep_time_millis)
         THEN /\ aborted' = TRUE
              /\ last' = [call EXCEPT !.outcome = "assert_failed"]
              /\ sleep_ct' = 0
              /\ UNCHANGED <<next_i2c_io_after, checked, deadline_dh, largest_deferred>>
       ELSE IF ~is_i2c_io(dref) /\ PROGRAM_LOGIC_ERROR_terminates
         THEN /\ aborted' = TRUE
              /\ last' = [call EXCEPT !.outcome = "program_logic_error"]
              /\ sleep_ct' = 0
              /\ UNCHANGED <<next_i2c_io_after, checked, deadline_dh, largest_deferred>>
       ELSE IF deferrable
         THEN \E product \in nanos_product(adjusted) :
                /\ next_i2c_io_after' =
                     [next_i2c_io_after EXCEPT
                        ![dref] = raised_deadline(@, now + product)]
                /\ deadline_dh' =
                     [deadline_dh EXCEPT
                        ![dref] = IF now + product > next_i2c_io_after[dref] THEN dh ELSE @]
                /\ checked' = [checked EXCEPT ![dref] = FALSE]
                /\ last' = [done EXCEPT !.candidate = now + product]
                /\ sleep_ct' = 0
                /\ largest_deferred' =
                     [largest_deferred EXCEPT ![dref] = IF adjusted > @ THEN adjusted ELSE @]
                /\ UNCHANGED aborted
       ELSE LET millis == immediate_sleep_millis(adjusted, next_i2c_io_after[dref], now)
            IN /\ last' = [done EXCEPT !.slept = millis, !.outcome = "sleeping"]
               /\ sleep_ct' = 1
               /\ UNCHANGED <<next_i2c_io_after, aborted, checked, deadline_dh,
                              largest_deferred>>
  /\ UNCHANGED <<now, deferred_sleep_enabled, i2c_io_strategy, dh_dref, pc,
                 new_deferred_time>>

\* check_deferred_sleep up to its sleep_millis_with_trace(), or to its return
\* when the deadline is not ahead
check_deferred_sleep_enter(dh) ==
  /\ ~aborted
  /\ ~Suspended
  /\ now <= Horizon
  /\ dh_dref[dh] # "closed"
  /\ LET dref == dh_dref[dh]
         curtime == now
         call == [NoCall EXCEPT !.op = "check_deferred_sleep", !.dh = dh,
                                !.dref = dref,
                                !.entry_now = now,
                                !.entry_next = next_i2c_io_after[dref],
                                !.entry_checked = checked[dref]]
     IN
       /\ IF dref_next_i2c_io_after(next_i2c_io_after, dref) > curtime
            THEN LET sleep_time ==
                       deferred_sleep_time(dref_next_i2c_io_after(next_i2c_io_after, dref),
                                           curtime)
                 IN /\ last' = [call EXCEPT !.slept = sleep_time, !.outcome = "sleeping"]
                    /\ sleep_ct' = 1
            ELSE /\ last' = call
                 /\ sleep_ct' = 0
       /\ checked' = [checked EXCEPT ![dref] = TRUE]
  /\ UNCHANGED <<now, deferred_sleep_enabled, i2c_io_strategy, next_i2c_io_after, aborted,
                 pc, new_deferred_time, largest_deferred>>
  /\ UNCHANGED connVars

\* the clock runs on while the thread is suspended in its sleep
sleep_time_passes(ticks) ==
  /\ Suspended
  /\ now < wake_time
  /\ now' = IF now + ticks > wake_time THEN wake_time ELSE now + ticks
  /\ UNCHANGED <<deferred_sleep_enabled, i2c_io_strategy, next_i2c_io_after, aborted,
                 checked, last, pc, new_deferred_time>>
  /\ UNCHANGED connVars
  /\ UNCHANGED liveVars

\* sleep_millis_with_trace() is over and the call that made it returns
sleep_millis_with_trace_return ==
  /\ Suspended
  /\ now >= wake_time
  /\ last' = [last EXCEPT !.outcome = "returned"]
  /\ UNCHANGED <<now, deferred_sleep_enabled, i2c_io_strategy, next_i2c_io_after, aborted,
                 checked, pc, new_deferred_time>>
  /\ UNCHANGED connVars
  /\ UNCHANGED liveVars

NextLive ==
  \/ \E onoff \in BOOLEAN : ~Suspended /\ enable_deferred_sleep(onoff)
  \/ \E dh \in Display_Handles, event_type \in Sleep_Event_Type,
        special \in SpecialMillisArgs, tsd \in LiveTsd :
       tuned_sleep_with_trace_enter(dh, event_type, special, tsd,
                                    tsd.cur_sleep_adjustment_factor)
  \/ \E dh \in Display_Handles : check_deferred_sleep_enter(dh)
  \/ \E ticks \in ElapseChoices : ~Suspended /\ Elapse(ticks)
  \/ sleep_time_passes(SleepStepMs * TicksPerMs)
  \/ sleep_millis_with_trace_return

\* the clock advances, and a sleep that is over returns
SpecLive ==
  /\ Init
  /\ [][NextLive]_vars
  /\ WF_vars(sleep_time_passes(SleepStepMs * TicksPerMs))
  /\ WF_vars(sleep_millis_with_trace_return)

-----------------------------------------------------------------------------
(* Claims *)

DeferrableEvents ==
  {"SE_POST_WRITE", "SE_POST_READ", "SE_POST_SAVE_SETTINGS", "SE_POST_CAP_TABLE_COMMAND"}

ImmediateEvents == Sleep_Event_Type \ DeferrableEvents

TunedSleepReturned ==
  last.op = "tuned_sleep_with_trace" /\ last.outcome = "returned"

\* C1: with one thread, next_i2c_io_after of a display reference is never
\* lower after a step than before it, whatever tuned_sleep, check_deferred and
\* enable_deferred_sleep calls are made; a smaller candidate arriving while a
\* later deadline is pending leaves the deadline where it was.
C1_DeadlineNeverLowered ==
  [][\A d \in Display_Refs : next_i2c_io_after'[d] >= next_i2c_io_after[d]]_vars

\* C1 witness: a deferred tuned_sleep whose candidate was below the pending
\* deadline has returned and the deadline is still the pending one.
C1_Witness ==
  /\ TunedSleepReturned
  /\ last.deferrable
  /\ last.candidate < last.entry_next
  /\ last.entry_next > last.entry_now
  /\ next_i2c_io_after[last.dref] = last.entry_next

\* C2: with two threads in deferrable tuned_sleep calls on the same display
\* reference, under every interleaving of their steps the stored deadline
\* never decreases.
C2_DeadlineNeverLoweredByThreads ==
  [][next_i2c_io_after'[SharedDref] >= next_i2c_io_after[SharedDref]]_vars

\* C3: when check_deferred has returned, the clock is at or after the
\* next_i2c_io_after recorded when it was entered.
C3_ReturnsNotBeforeDeadline ==
  last.op = "check_deferred_sleep" => now >= last.entry_next

\* C4: every bus write and bus read through invoke_i2c_writer /
\* invoke_i2c_reader is preceded by a check_deferred on the same display with
\* no deferred tuned_sleep in between.
C4_TransferPrecededByCheck ==
  last.op \in {"invoke_i2c_writer", "invoke_i2c_reader"} => last.entry_checked

\* C5 as stated: for the four deferrable events tuned_sleep never blocks,
\* whatever the runtime settings; for the six other events it always sleeps.
C5_DeferrableFixedPerEvent ==
  TunedSleepReturned =>
    /\ last.event \in DeferrableEvents => last.slept = -1
    /\ last.event \in ImmediateEvents => last.slept >= 0

\* C5 amended: for the four deferrable events tuned_sleep does not block and
\* applies the raise-only update of the display's deadline with its candidate
\* exactly when deferred sleep is enabled; when it is disabled, and always for
\* the six other events, it sleeps immediately and leaves the deadline alone.
C5_DeferrableWhenEnabled ==
  TunedSleepReturned =>
    LET deferred == last.event \in DeferrableEvents /\ deferred_sleep_enabled
    IN /\ deferred =>
            /\ last.slept = -1
            /\ now >= last.entry_now
            /\ next_i2c_io_after[last.dref] =
                 (IF last.candidate > last.entry_next THEN last.candidate
                                                       ELSE last.entry_next)
       /\ ~deferred =>
            /\ last.slept >= 0
            /\ now >= last.entry_now + last.slept * TicksPerMs
            /\ next_i2c_io_after[last.dref] = last.entry_next

\* C5 witness: a post-write tuned_sleep made with deferred sleep enabled has
\* returned without sleeping and has raised the deadline to its candidate.
C5_Witness ==
  /\ TunedSleepReturned
  /\ last.event = "SE_POST_WRITE"
  /\ deferred_sleep_enabled
  /\ last.slept = -1
  /\ last.candidate > last.entry_next
  /\ next_i2c_io_after[last.dref] = last.candidate

\* C6 as stated: for every non-deferrable event tuned_sleep blocks for at
\* least base * global_multiplier milliseconds, for every retry count and
\* adjustment factor.
C6_SleepsAtLeastBaseTimesMultiplier ==
  (TunedSleepReturned /\ last.event \in ImmediateEvents) =>
    /\ last.slept >= 0
    /\ last.slept * last.tsd.sleep_multiplier_factor[2]
         >= last.base * last.tsd.sleep_multiplier_factor[1]

\* C6 amended: for every non-deferrable event tuned_sleep blocks immediately
\* for the adjusted delay, trunc(base * k * global_multiplier) milliseconds,
\* k being the adjustment factor with dynamic adjustment and the retry count
\* without; that is at least trunc(base * global_multiplier) when k >= 1.
C6_SleepsAdjustedDelay ==
  (TunedSleepReturned /\ last.event \in ImmediateEvents) =>
    LET m == last.tsd.sleep_multiplier_factor
        k == IF last.tsd.dynamic_sleep_enabled
               THEN last.tsd.cur_sleep_adjustment_factor
               ELSE <<last.tsd.sleep_multiplier_ct, 1>>
        num == last.base * k[1] * m[1]
        den == k[2] * m[2]
    IN /\ last.slept >= 0
       /\ last.slept * den <= num
       /\ num < (last.slept + 1) * den
       /\ k[1] >= k[2] => last.slept >= (last.base * m[1]) \div m[2]
       /\ now >= last.entry_now + last.slept * TicksPerMs

\* C6 witness: a write-to-read tuned_sleep under dynamic adjustment with a
\* factor below 1 has slept, and for less than base * global_multiplier.
C6_Witness ==
  /\ TunedSleepReturned
  /\ last.event = "SE_WRITE_TO_READ"
  /\ last.tsd.dynamic_sleep_enabled
  /\ last.slept > 0
  /\ last.slept * last.tsd.sleep_multiplier_factor[2]
       < last.base * last.tsd.sleep_multiplier_factor[1]

\* C7: check_deferred does not block when next_i2c_io_after <= now, and
\* otherwise blocks for exactly next_i2c_io_after - now.
C7_BlocksExactlyTheRemainder ==
  last.op = "check_deferred_sleep" =>
    IF last.entry_next <= last.entry_now
      THEN last.slept = -1
      ELSE last.slept * TicksPerMs = last.entry_next - last.entry_now

\* C8: a deferred tuned_sleep at time t with adjusted delay d, which set the
\* deadline to t+d, followed with no other call by check_deferred at t+e,
\* makes check_deferred sleep d-e when e < d and not at all when e >= d.
C8_ElapsedTimeSubtracted ==
  [][(/\ TunedSleepReturned
      /\ last.deferrable
      /\ next_i2c_io_after[last.dref] = last.entry_now + last.adjusted * TicksPerMs
      /\ last'.op = "check_deferred_sleep"
      /\ last'.dref = last.dref)
     => LET d == last.adjusted * TicksPerMs
            e == last'.entry_now - last.entry_now
        IN IF e < d
             THEN last'.slept * TicksPerMs = d - e
             ELSE last'.slept = -1]_vars

\* C9: tuned_sleep passes its precondition exactly when (event is not special
\* and special_millis = 0) or (event is special and special_millis > 0);
\* otherwise the call stops before any effect: nothing recorded, no sleep,
\* next_i2c_io_after unchanged.
C9_SpecialMillisPrecondition ==
  last.op = "tuned_sleep_with_trace" =>
    LET accepted == \/ last.event # "SE_SPECIAL" /\ last.special = 0
                    \/ last.event = "SE_SPECIAL" /\ last.special > 0
    IN /\ (last.outcome = "assert_failed") <=> ~accepted
       /\ ~accepted =>
            /\ aborted
            /\ last.recorded = 0
            /\ last.slept = -1
            /\ now = last.entry_now
            /\ next_i2c_io_after[last.dref] = last.entry_next

\* C9 witness: a tuned_sleep for a non-special event with a positive
\* special_millis was stopped while a deferred deadline was pending.
C9_Witness ==
  /\ last.op = "tuned_sleep_with_trace"
  /\ last.event = "SE_POST_WRITE"
  /\ last.special > 0
  /\ last.outcome = "assert_failed"
  /\ deferred_sleep_enabled
  /\ last.entry_next > last.entry_now

\* C10: tuned_sleep for a display that uses USB I/O is a fatal logic error:
\* the call records no sleep event, does not sleep and leaves
\* next_i2c_io_after unchanged.
C10_UsbIsLogicError ==
  (last.op = "tuned_sleep_with_trace" /\ io_mode(last.dref) = "DDCA_IO_USB") =>
    /\ last.outcome \in {"assert_failed", "program_logic_error"}
    /\ aborted
    /\ last.recorded = 0
    /\ last.slept = -1
    /\ now = last.entry_now
    /\ next_i2c_io_after[last.dref] = last.entry_next

\* C10 witness: a tuned_sleep with valid arguments on the USB display has
\* ended in the program logic error.
C10_Witness ==
  /\ last.op = "tuned_sleep_with_trace"
  /\ io_mode(last.dref) = "DDCA_IO_USB"
  /\ last.event = "SE_WRITE_TO_READ"
  /\ last.special = 0
  /\ last.outcome = "program_logic_error"

BusTransfers == {"invoke_i2c_writer", "invoke_i2c_reader"}

\* C11: invoke_i2c_writer and invoke_i2c_reader never return a positive
\* status: every status returned is zero or negative, and a positive status
\* from the strategy's function stops the process instead of being returned.
C11_NoPositiveStatusReturned ==
  last.op \in BusTransfers =>
    /\ last.outcome = "returned" => last.ret <= 0
    /\ last.rc > 0 => (last.outcome = "assert_failed" /\ aborted)

\* C11 witness: the strategy's reader reported a positive status and the call
\* ended in the failed assertion.
C11_Witness ==
  /\ last.op = "invoke_i2c_reader"
  /\ last.rc > 0
  /\ last.outcome = "assert_failed"
  /\ aborted

\* C12: for every zero or negative status the strategy's writer or reader
\* returns, invoke_i2c_writer / invoke_i2c_reader return exactly that status,
\* having called the strategy's function once, with the caller's fd, slave
\* address, byte count, buffer and read_bytewise flag as they were passed in.
C12_StatusAndArgumentsPassedThrough ==
  (last.op \in BusTransfers /\ last.rc <= 0) =>
    /\ last.outcome = "returned"
    /\ last.ret = last.rc
    /\ Len(last.transport) = 1
    /\ last.transport[1].fn = (IF last.op = "invoke_i2c_writer"
                                 THEN i2c_io_strategy.i2c_writer
                                 ELSE i2c_io_strategy.i2c_reader)
    /\ last.transport[1].args = last.xfer

\* C12 witness: a bytewise read of one byte from slave 0x50 into the second
\* buffer failed with -5, which was returned after one call of the reader.
C12_Witness ==
  /\ last.op = "invoke_i2c_reader"
  /\ last.rc = -5
  /\ last.ret = -5
  /\ last.xfer = <<"dref1", 80, TRUE, 1, "buf2">>
  /\ last.transport = <<[fn |-> "i2c_ioctl_reader", args |-> last.xfer]>>

\* C13: a bus write or read, whatever status it returns, leaves
\* next_i2c_io_after of every display, the deferred sleep setting and the
\* active strategy as they were before the call.
C13_TransferLeavesSleepState ==
  [][last'.op \in BusTransfers =>
       /\ next_i2c_io_after' = next_i2c_io_after
       /\ deferred_sleep_enabled' = deferred_sleep_enabled
       /\ i2c_io_strategy' = i2c_io_strategy]_vars

\* C13 witness: a bus write made while a deferred deadline was pending has
\* returned -5; deferred sleep is enabled and the deadline still stands.
C13_Witness ==
  /\ last.op = "invoke_i2c_writer"
  /\ last.outcome = "returned"
  /\ last.ret = -5
  /\ deferred_sleep_enabled
  /\ last.entry_next > last.entry_now
  /\ next_i2c_io_after[last.dref] = last.entry_next

\* C14: i2c_set_io_strategy(id) returns the id i2c_get_io_strategy() reported
\* just before the call, and i2c_get_io_strategy() right after it reports id;
\* the active strategy changes in no other step, so after any sequence of
\* selections it is the last one selected.
C14_StrategySelectRoundTrip ==
  [][/\ (last'.op = "i2c_set_io_strategy" /\ now' = now) =>
          /\ last'.ret = i2c_get_io_strategy
          /\ i2c_get_io_strategy' = last'.arg
     /\ i2c_io_strategy' # i2c_io_strategy =>
          (last'.op = "i2c_set_io_strategy" /\ now' = now)]_vars

\* C14 witness: the ioctl strategy was selected after a bus transfer had been
\* made; the call returned the id current before and the id is now current.
C14_Witness ==
  /\ last.op = "i2c_set_io_strategy"
  /\ last.arg = "I2C_IO_STRATEGY_IOCTL"
  /\ last.ret = "I2C_IO_STRATEGY_IOCTL"
  /\ i2c_get_io_strategy = "I2C_IO_STRATEGY_IOCTL"
  /\ now > ClockStart

\* C15: deferred sleep is disabled until enable_deferred_sleep is called;
\* enable_deferred_sleep(on) returns the setting in force before the call and
\* is_deferred_sleep_enabled() then reports on; the setting changes in no
\* other step, so it is always the last value passed.
C15_EnableDeferredSleepRoundTrip ==
  /\ ~is_deferred_sleep_enabled
  /\ [][/\ (last'.op = "enable_deferred_sleep" /\ now' = now) =>
             /\ last'.ret = is_deferred_sleep_enabled
             /\ is_deferred_sleep_enabled' = last'.arg
        /\ is_deferred_sleep_enabled' # is_deferred_sleep_enabled =>
             (last'.op = "enable_deferred_sleep" /\ now' = now)]_vars

\* C15 witness: deferred sleep was switched off after it had been on: the
\* call returned true and the setting is now false.
C15_Witness ==
  /\ last.op = "enable_deferred_sleep"
  /\ last.arg = FALSE
  /\ last.ret = TRUE
  /\ ~is_deferred_sleep_enabled

\* C16: the deferred deadline belongs to the display reference: closing or
\* opening a connection leaves next_i2c_io_after as it was, and when
\* check_deferred_sleep returns on a connection other than the one, since
\* closed, through which the deadline was recorded, the deadline has passed.
C16_DeadlineOutlivesConnection ==
  [][/\ dh_dref' # dh_dref => next_i2c_io_after' = next_i2c_io_after
     /\ (/\ last'.op = "check_deferred_sleep"
         /\ deadline_dh'[last'.dref] \notin {"none", last'.dh}
         /\ dh_dref'[deadline_dh'[last'.dref]] = "closed")
        => now' >= last'.entry_next]_vars

\* the first half of C16 alone: closing and opening connections leaves every
\* deadline as it was
C16_OpenCloseLeaveDeadline ==
  [][dh_dref' # dh_dref => next_i2c_io_after' = next_i2c_io_after]_vars

\* C17: on an I2C display the base delay of a tuned_sleep is a function of
\* the event type alone: 50 ms for write-to-read, post write, post read,
\* multi-part write-to-read, between capabilities/table fragments and post
\* capabilities/table command; 200 ms for post save-settings and pre
\* multi-part read; the null response increment for a null response; the
\* caller's special_sleep_time_millis for the special event.
C17_BaseDelayTable ==
  TunedSleepReturned =>
    last.base =
      CASE last.event \in {"SE_WRITE_TO_READ", "SE_POST_WRITE", "SE_POST_READ",
                           "SE_MULTI_PART_WRITE_TO_READ",
                           "SE_AFTER_EACH_CAP_TABLE_SEGMENT",
                           "SE_POST_CAP_TABLE_COMMAND"}                   -> 50
        [] last.event \in {"SE_POST_SAVE_SETTINGS", "SE_PRE_MULTI_PART_READ"} -> 200
        [] last.event = "SE_DDC_NULL" -> DDC_TIMEOUT_MILLIS_NULL_RESPONSE_INCREMENT
        [] last.event = "SE_SPECIAL"  -> last.special

\* C17 witness: a post save-settings tuned_sleep by a thread with retry count
\* 11, made while a later deadline was pending, has returned with base 200.
C17_Witness ==
  /\ TunedSleepReturned
  /\ last.event = "SE_POST_SAVE_SETTINGS"
  /\ last.tsd.sleep_multiplier_ct = 11
  /\ last.entry_next > last.entry_now
  /\ last.base = 200

\* C18: with dynamic sleep enabled for the thread, tuned_sleep calls
\* dsa_update_adjustment_factor once and its adjusted delay is
\* trunc(base * factor * sleep_multiplier_factor) for the factor that call
\* left; otherwise the estimator is not called and the adjusted delay is
\* trunc(base * sleep_multiplier_ct * sleep_multiplier_factor).  The product
\* is truncated once, at the end.
C18_AdjustedDelay ==
  TunedSleepReturned =>
    LET dyn == last.entry_tsd.dynamic_sleep_enabled
        m == last.entry_tsd.sleep_multiplier_factor
        k == IF dyn THEN last.dsa_factor ELSE <<last.entry_tsd.sleep_multiplier_ct, 1>>
        num == last.base * k[1] * m[1]
        den == k[2] * m[2]
    IN /\ last.dsa_calls = (IF dyn THEN 1 ELSE 0)
       /\ last.adjusted * den <= num
       /\ num < (last.adjusted + 1) * den

\* C18 witness: a thread with dynamic sleep, factor 1 on entry, for which the
\* estimator arrived at 3/2, with multiplier 1/4: base 50 gave trunc(18.75).
C18_Witness ==
  /\ TunedSleepReturned
  /\ last.entry_tsd.dynamic_sleep_enabled
  /\ last.entry_tsd.cur_sleep_adjustment_factor = <<1, 1>>
  /\ last.dsa_factor = <<3, 2>>
  /\ last.entry_tsd.sleep_multiplier_factor = <<1, 4>>
  /\ last.base = 50
  /\ last.dsa_calls = 1
  /\ last.adjusted = 18

\* C19: for every deferrable event and every adjusted delay, also above
\* 2147 ms, the candidate deadline is the clock at the call plus the adjusted
\* delay, exactly, and so never earlier than the clock at the call.
C19_CandidateIsNowPlusAdjusted ==
  (TunedSleepReturned /\ last.deferrable) =>
    /\ last.candidate = last.entry_now + last.adjusted * TicksPerMs
    /\ last.candidate >= last.entry_now

\* C20: after a deferred tuned_sleep at time now with adjusted delay d on a
\* display whose deadline was old, the deadline is max(old, now + d): the
\* candidate when that is greater than old, otherwise old; never above
\* now + d unless it was before; and the call has not slept.
C20_DeadlineIsMaxOfOldAndNowPlusAdjusted ==
  (TunedSleepReturned /\ last.deferrable) =>
    LET old == last.entry_next
        due == last.entry_now + last.adjusted * TicksPerMs
    IN /\ next_i2c_io_after[last.dref] = (IF due > old THEN due ELSE old)
       /\ last.slept = -1

\* C21: a tuned_sleep that sleeps immediately leaves next_i2c_io_after of
\* every display as it was and sleeps its adjusted delay, no more: it does
\* not wait for a deferred deadline that is still ahead.
C21_ImmediateSleepLeavesLedger ==
  [][(/\ last' # last
      /\ last'.op = "tuned_sleep_with_trace"
      /\ last'.outcome = "returned"
      /\ ~last'.deferrable)
     => /\ next_i2c_io_after' = next_i2c_io_after
        /\ last'.slept = last'.adjusted
        /\ now' = now + last'.adjusted * TicksPerMs]_vars

\* C21 witness: an immediate tuned_sleep made while a deferred deadline was
\* further ahead than its adjusted delay has returned before that deadline.
C21_Witness ==
  /\ TunedSleepReturned
  /\ ~last.deferrable
  /\ last.entry_next > last.entry_now + last.adjusted * TicksPerMs
  /\ now = last.entry_now + last.adjusted * TicksPerMs
  /\ next_i2c_io_after[last.dref] = last.entry_next
  /\ now < next_i2c_io_after[last.dref]

\* C22: every tuned_sleep whose arguments are accepted calls
\* record_sleep_event once, for every event type and on the deferred as on the
\* immediate path, after the adjusted delay is computed and before the
\* deadline is updated or the thread sleeps.
C22_SleepEventRecordedOnce ==
  TunedSleepReturned =>
    LET st == last.statements
        At(name) == {i \in 1..Len(st) : st[i] = name}
    IN /\ last.recorded = 1
       /\ Cardinality(At("record_sleep_event")) = 1
       /\ \A r \in At("record_sleep_event") :
            /\ \E a \in At("adjusted_sleep_time_millis") : a < r
            /\ \A e \in At("next_i2c_io_after") \cup At("sleep_millis_with_trace") : r < e
       /\ IF last.deferrable
            THEN At("next_i2c_io_after") # {} /\ At("sleep_millis_with_trace") = {}
            ELSE At("sleep_millis_with_trace") # {} /\ At("next_i2c_io_after") = {}

\* C22 witness: a post-read tuned_sleep on the deferred path has returned,
\* its event recorded once, before the deadline was raised.
C22_Witness ==
  /\ TunedSleepReturned
  /\ last.event = "SE_POST_READ"
  /\ last.deferrable
  /\ last.recorded = 1
  /\ last.statements[2] = "record_sleep_event"
  /\ next_i2c_io_after[last.dref] = last.candidate

\* C23: tuned_sleep and check_deferred_sleep on a connection to one display
\* leave next_i2c_io_after of every other display as it was, and
\* check_deferred_sleep does not block beyond the deadline of its own display,
\* whatever deadline another display has.
C23_DisplaysIndependent ==
  [][(last' # last /\ last'.op \in {"tuned_sleep_with_trace", "check_deferred_sleep"})
     => /\ \A d \in Display_Refs \ {last'.dref} :
             next_i2c_io_after'[d] = next_i2c_io_after[d]
        /\ last'.op = "check_deferred_sleep" =>
             now' <= (IF next_i2c_io_after[last'.dref] > now
                        THEN next_i2c_io_after[last'.dref]
                        ELSE now)]_vars

\* C23 witness: check_deferred_sleep on a connection to the second display
\* has returned without sleeping while a deadline of the first display is
\* still ahead.
C23_Witness ==
  /\ last.op = "check_deferred_sleep"
  /\ last.dref = "dref2"
  /\ last.slept = -1
  /\ now = last.entry_now
  /\ next_i2c_io_after["dref1"] > now
  /\ deadline_dh["dref1"] # "none"

\* C24: while deferred sleep is disabled every tuned_sleep, of every event
\* type, sleeps its adjusted delay at once and changes no deadline; a deadline
\* changes only in a tuned_sleep made while deferred sleep is enabled, for
\* post write, post read, post save-settings or post capabilities/table
\* command.
C24_DisabledMeansImmediate ==
  [][/\ (/\ last' # last
         /\ last'.op = "tuned_sleep_with_trace"
         /\ last'.outcome = "returned"
         /\ ~deferred_sleep_enabled)
        => /\ last'.slept = last'.adjusted
           /\ now' = now + last'.adjusted * TicksPerMs
           /\ next_i2c_io_after' = next_i2c_io_after
     /\ next_i2c_io_after' # next_i2c_io_after
        => /\ deferred_sleep_enabled
           /\ last'.op = "tuned_sleep_with_trace"
           /\ last'.event \in DeferrableEvents]_vars

\* C24 witness: deferred sleep was enabled, a deadline recorded, deferred
\* sleep disabled again; a post-write tuned_sleep then slept its adjusted
\* delay and left the deadline.
C24_Witness ==
  /\ TunedSleepReturned
  /\ last.event = "SE_POST_WRITE"
  /\ ~deferred_sleep_enabled
  /\ last.entry_next > last.entry_now
  /\ last.slept = last.adjusted
  /\ next_i2c_io_after[last.dref] = last.entry_next

\* C25: a deadline recorded while deferred sleep was enabled is still owed
\* once deferred sleep is disabled: enable_deferred_sleep changes no
\* deadline, and check_deferred_sleep called with deferred sleep disabled
\* returns no earlier than the deadline of its display.
C25_DeadlineOwedAfterDisabling ==
  [][/\ (last' # last /\ last'.op = "enable_deferred_sleep")
        => next_i2c_io_after' = next_i2c_io_after
     /\ (/\ last' # last
         /\ last'.op = "check_deferred_sleep"
         /\ ~deferred_sleep_enabled)
        => now' >= next_i2c_io_after[last'.dref]]_vars

\* the parts of C25 that do not depend on how long check_deferred_sleep
\* sleeps: disabling leaves the deadlines, and with deferred sleep disabled
\* check_deferred_sleep sleeps whenever the deadline is a millisecond or more
\* ahead
C25_DisablingLeavesDeadline ==
  [][/\ (last' # last /\ last'.op = "enable_deferred_sleep")
        => next_i2c_io_after' = next_i2c_io_after
     /\ (/\ last' # last
         /\ last'.op = "check_deferred_sleep"
         /\ ~deferred_sleep_enabled
         /\ next_i2c_io_after[last'.dref] >= now + TicksPerMs)
        => (last'.slept > 0 /\ now' > next_i2c_io_after[last'.dref] - TicksPerMs)]_vars

\* C26: check_deferred_sleep only reads: whether or not it sleeps it leaves
\* every next_i2c_io_after and the deferred sleep setting as they were and
\* makes no call of the estimator of the thread's sleep data; so a deadline
\* that has been slept for stays, and a check_deferred_sleep made when the
\* deadline has passed returns at once.
C26_CheckOnlyReads ==
  [][(last' # last /\ last'.op = "check_deferred_sleep")
     => /\ next_i2c_io_after' = next_i2c_io_after
        /\ deferred_sleep_enabled' = deferred_sleep_enabled
        /\ last'.dsa_calls = 0
        /\ next_i2c_io_after[last'.dref] <= now =>
             (now' = now /\ last'.slept = -1)]_vars

\* C26 witness: a deadline was recorded and has passed, the call before on
\* the display was a check_deferred_sleep, and a further check_deferred_sleep
\* has returned without sleeping, the deadline still in place.
C26_Witness ==
  /\ last.op = "check_deferred_sleep"
  /\ last.entry_checked
  /\ last.entry_next > ClockStart
  /\ last.entry_next <= last.entry_now
  /\ last.slept = -1
  /\ now = last.entry_now
  /\ next_i2c_io_after[last.dref] = last.entry_next

\* C27: with the clock advancing, every check_deferred_sleep and every
\* tuned_sleep_with_trace that passes validation returns: a call that is
\* suspended in its sleep is returned from in the end; a call makes at most
\* one sleep, of the length it asked for; and check_deferred_sleep sleeps no
\* longer than the largest adjusted delay of the deferrable events recorded
\* against its display.
C27_CallsReturn ==
  /\ [](/\ sleep_ct <= 1
        /\ Suspended => (sleep_ct = 1 /\ last.slept >= 0 /\ now <= wake_time)
        /\ (last.op \in {"tuned_sleep_with_trace", "check_deferred_sleep"}
            /\ last.outcome = "returned" /\ sleep_ct = 1) => now >= wake_time
        /\ (last.op = "check_deferred_sleep" /\ last.slept >= 0)
             => last.slept <= largest_deferred[last.dref])
  /\ Suspended ~> (last.outcome = "returned")

\* C27 witness: check_deferred_sleep has returned from a sleep of more than
\* one step of the clock, as long as the largest adjusted delay recorded
\* against the display.
C27_Witness ==
  /\ last.op = "check_deferred_sleep"
  /\ last.outcome = "returned"
  /\ sleep_ct = 1
  /\ last.slept > SleepStepMs
  /\ last.slept = largest_deferred[last.dref]
  /\ now = wake_time

====
